---- MODULE Spec2Model ----
(***************************************************************************)
(* The formatted-text document model of llm_first_word_editor:             *)
(* word_processor/document.py (Document), word_processor/paragraph.py      *)
(* (Paragraph), word_processor/enums.py, and the module-level set-up of    *)
(* word_processor_server.py that builds the one shared Document.           *)
(*                                                                         *)
(* Text is a sequence of one-character strings; a Python str slice is      *)
(* modelled by PySlice with Python's clamping of out-of-range bounds.      *)
(* Margins are kept in hundredths of a centimetre, so 2.5 cm is 250.       *)
(***************************************************************************)
EXTENDS Integers, Sequences, FiniteSets, TLC

\* ------------------------------------------------------------- bounds
\* Longest document text the actions build.
MaxLen == 3
\* Largest value next_paragraph_id may reach (create_paragraph is unbounded).
MaxId == 7
\* Largest value document_version may reach (increment_version is unbounded).
MaxVersion == 2
\* Most handlers that may stand at "await increment_version()" at one time.
MaxInFlight == 2

\* ------------------------------------------------------------- helpers
Min(a, b) == IF a < b THEN a ELSE b
Max(a, b) == IF a > b THEN a ELSE b

\* Python's normalisation of a slice bound against a sequence of length n.
PyBound(i, n) == IF i < 0 THEN Max(i + n, 0) ELSE Min(i, n)

\* s[a:b] of a Python str
PySlice(s, a, b) ==
    LET lo == PyBound(a, Len(s))
        hi == PyBound(b, Len(s))
    IN  IF lo < hi THEN SubSeq(s, lo + 1, hi) ELSE << >>

\* s[:b] and s[a:]
PyTo(s, b) == PySlice(s, 0, b)
PyFrom(s, a) == PySlice(s, a, Len(s))

\* list.insert(i, x) for 0 <= i; l is 1-based here, i is Python's 0-based index
ListInsert(l, i, x) ==
    LET k == Min(i, Len(l))
    IN  SubSeq(l, 1, k) \o << x >> \o SubSeq(l, k + 1, Len(l))

\* del l[a:b] for 0 <= a <= b <= len(l)
ListDelSlice(l, a, b) == SubSeq(l, 1, a) \o SubSeq(l, b + 1, Len(l))

\* ------------------------------------------------------------- enums.py
FormattingType ==
    { "BOLD", "ITALIC", "LOWERSCRIPT", "SUPERSCRIPT",
      "TITLE", "HEADING", "SUBHEADING", "BODY" }

\* FormattingType.X.value
FormattingTypeValue(m) ==
    CASE m = "BOLD" -> "bold"
      [] m = "ITALIC" -> "italic"
      [] m = "LOWERSCRIPT" -> "lowerscript"
      [] m = "SUPERSCRIPT" -> "superscript"
      [] m = "TITLE" -> "title"
      [] m = "HEADING" -> "heading"
      [] m = "SUBHEADING" -> "subheading"
      [] m = "BODY" -> "body"

\* FormattingType(value): the member whose value is v
FormattingTypeOf(v) == CHOOSE m \in FormattingType : FormattingTypeValue(m) = v

MarginType == { "LEFT", "RIGHT", "TOP", "BOTTOM" }

\* ------------------------------------------------------------- paragraph.py
\* Paragraph(paragraph_id=id, content=c, ...): start_index and end_index
\* take their declared defaults (0 and 0).
Paragraph(id, c, b, i, l, s, h) ==
    [ paragraph_id |-> id, start_index |-> 0, end_index |-> 0, content |-> c,
      bold |-> b, italic |-> i, lowerscript |-> l, superscript |-> s,
      hierarchy |-> h ]

\* Inserting by overwriting: the characters after index are taken from
\* index + len(text) on
Paragraph_insert_overwriting(p, text, index) ==
    [p EXCEPT !.content = PyTo(p.content, index) \o text
                          \o PyFrom(p.content, index + Len(text))]

\* Paragraph.insert
Paragraph_insert(p, text, index) ==
    [p EXCEPT !.content = PyTo(p.content, index) \o text \o PyFrom(p.content, index)]

\* A switch that leaves the paragraph's formatting as it was
Paragraph_keep_formatting(p, formatting_type) == p

\* Paragraph.switch_formatting: the argument is the enum member's value
Paragraph_switch_formatting(p, formatting_type) ==
    IF formatting_type = FormattingTypeValue("BOLD")
    THEN [p EXCEPT !.bold = ~p.bold]
    ELSE IF formatting_type = FormattingTypeValue("ITALIC")
    THEN [p EXCEPT !.italic = ~p.italic]
    ELSE IF formatting_type = FormattingTypeValue("LOWERSCRIPT")
    THEN [p EXCEPT !.lowerscript = ~p.lowerscript]
    ELSE IF formatting_type = FormattingTypeValue("SUPERSCRIPT")
    THEN [p EXCEPT !.superscript = ~p.superscript]
    ELSE [p EXCEPT !.hierarchy = FormattingTypeOf(formatting_type)]

\* Paragraph.can_merge_with
can_merge_with(p, other) ==
    /\ p.bold = other.bold
    /\ p.italic = other.italic
    /\ p.lowerscript = other.lowerscript
    /\ p.superscript = other.superscript
    /\ p.hierarchy = other.hierarchy

\* Paragraph.merge
merge(p, other) == [p EXCEPT !.content = p.content \o other.content]

\* ------------------------------------------------------------- document.py
\* Document.get_text_only (of a paragraph list)
RECURSIVE get_text_only(_)
get_text_only(c) ==
    IF c = << >> THEN << >> ELSE Head(c).content \o get_text_only(Tail(c))

\* The forward pass with end_index one past the last character of the run
RECURSIVE RecalcFromExclusiveEnd(_, _)
RecalcFromExclusiveEnd(c, start) ==
    IF c = << >> THEN << >>
    ELSE << [Head(c) EXCEPT !.start_index = start,
                            !.end_index = start + Len(Head(c).content)] >>
         \o RecalcFromExclusiveEnd(Tail(c), start + Len(Head(c).content))

\* Document.recalculate_start_and_end: one forward pass; start is the running offset
RECURSIVE RecalcFrom(_, _)
RecalcFrom(c, start) ==
    IF c = << >> THEN << >>
    ELSE << [Head(c) EXCEPT !.start_index = start,
                            !.end_index = start + Len(Head(c).content) - 1] >>
         \o RecalcFrom(Tail(c), start + Len(Head(c).content))

recalculate_start_and_end(c) == RecalcFrom(c, 0)

\* The backward pass stopping one pair early: the first two paragraphs are
\* never compared
RECURSIVE JoinLoopSkippingFirst(_, _)
JoinLoopSkippingFirst(c, i) ==
    IF i > 1
    THEN IF can_merge_with(c[i], c[i + 1])
         THEN JoinLoopSkippingFirst(
                  ListDelSlice([c EXCEPT ![i] = merge(c[i], c[i + 1])], i, i + 1), i - 1)
         ELSE JoinLoopSkippingFirst(c, i - 1)
    ELSE c

\* The backward pass going two places down after a merge: the merged
\* paragraph is not compared with the one before it
RECURSIVE JoinLoopSteppingOver(_, _)
JoinLoopSteppingOver(c, i) ==
    IF i > 0
    THEN IF can_merge_with(c[i], c[i + 1])
         THEN JoinLoopSteppingOver(
                  ListDelSlice([c EXCEPT ![i] = merge(c[i], c[i + 1])], i, i + 1), i - 2)
         ELSE JoinLoopSteppingOver(c, i - 1)
    ELSE c

\* The while loop of Document.join_paragraphs; i is Python's 0-based index
RECURSIVE JoinLoop(_, _)
JoinLoop(c, i) ==
    IF i > 0
    THEN IF can_merge_with(c[i], c[i + 1])
         THEN JoinLoop(ListDelSlice([c EXCEPT ![i] = merge(c[i], c[i + 1])], i, i + 1),
                       i - 1)
         ELSE JoinLoop(c, i - 1)
    ELSE c

\* Document.join_paragraphs
join_paragraphs(c) ==
    IF c = << >> THEN c
    ELSE recalculate_start_and_end(JoinLoop(c, Len(c) - 1))

\* The first paragraph (1-based position) whose [start_index, end_index + 1]
\* holds index; 0 when the for loop ends without a break.
FirstHolding(c, index) ==
    LET hits == { k \in 1..Len(c) :
                    c[k].start_index <= index /\ index <= c[k].end_index + 1 }
    IN  IF hits = {} THEN 0 ELSE CHOOSE k \in hits : \A j \in hits : k <= j

\* The search of Document.delete, had its loop a break: the first paragraph
\* holding index
BreakOnFirstHolding(c, index) ==
    LET hits == { k \in 1..Len(c) :
                    c[k].start_index <= index /\ index <= c[k].end_index + 1 }
    IN  IF hits = {} THEN 0 ELSE CHOOSE k \in hits : \A j \in hits : k <= j

\* The last such paragraph: the loop of Document.delete has no break.
LastHolding(c, index) ==
    LET hits == { k \in 1..Len(c) :
                    c[k].start_index <= index /\ index <= c[k].end_index + 1 }
    IN  IF hits = {} THEN 0 ELSE CHOOSE k \in hits : \A j \in hits : k >= j

\* Document.insert_at_index, on the paragraph list
insert_at_index(c, text, index) ==
    LET c0 == IF c = << >>
              THEN << Paragraph(0, << >>, FALSE, FALSE, FALSE, FALSE, "BODY") >>
              ELSE c
        hit == FirstHolding(c0, index)
        k == IF hit = 0 THEN Len(c0) ELSE hit
        idx == IF hit = 0 THEN c0[k].end_index + 1 ELSE index
        insertion_point == idx - c0[k].start_index
        c1 == [c0 EXCEPT ![k] = Paragraph_insert(c0[k], text, insertion_point)]
    IN  recalculate_start_and_end(join_paragraphs(c1))

\* The cut with relative_end taken as exclusive
DeleteWithinExclusive(text, relative_start, relative_end) ==
    PyTo(text, relative_start) \o PyFrom(text, relative_end)

\* Document.delete, start and end in the same paragraph: the content left
DeleteWithin(text, relative_start, relative_end) ==
    PyTo(text, relative_start) \o PyFrom(text, relative_end + 1)

\* Document.delete, on the paragraph list
delete(c, start_index, end_index) ==
    IF start_index > end_index THEN c
    ELSE
    LET sp == LastHolding(c, start_index)
        eh == LastHolding(c, end_index)
        ep == IF eh = 0 THEN Len(c) ELSE eh
    IN  IF sp = 0 THEN c
        ELSE
        LET relative_start == start_index - c[sp].start_index
            relative_end == end_index - c[ep].start_index
            c1 == IF sp = ep
                  THEN [c EXCEPT ![sp].content =
                          DeleteWithin(c[sp].content, relative_start, relative_end)]
                  ELSE LET c2 == [c EXCEPT
                                    ![sp].content = PyTo(c[sp].content, relative_start),
                                    ![ep].content = PyFrom(c[ep].content, relative_end + 1)]
                       IN  IF sp + 1 < ep
                           THEN ListDelSlice(c2, sp, ep - 1)
                           ELSE c2
        IN  recalculate_start_and_end(join_paragraphs(c1))

\* Document.switch_style_within_paragraph.  d is the Document (content,
\* next_paragraph_id); pos is self._content.index(p), 0-based.  p is found at
\* its own position: an element equal to p in every field (id, indices,
\* content) cannot stand before it, since paragraph ids are distinct.
switch_style_within_paragraph(d, pos, start_index, end_index, formatting_type) ==
    LET p == d.content[pos + 1]
        n == Len(p.content)
        cut_lo == Max(start_index - p.start_index, 0)
        cut_hi == n - Max(p.end_index - end_index, 0)
        p_start == Paragraph(d.next_paragraph_id, PyTo(p.content, cut_lo),
                             p.bold, p.italic, p.lowerscript, p.superscript, p.hierarchy)
        index1 == IF p_start.content # << >> THEN pos + 1 ELSE pos
        c1 == IF p_start.content # << >>
              THEN ListInsert(d.content, index1, p_start)
              ELSE d.content
        p_end == Paragraph(d.next_paragraph_id + 1, PyFrom(p.content, cut_hi),
                           p.bold, p.italic, p.lowerscript, p.superscript, p.hierarchy)
        c2 == IF p_end.content # << >>
              THEN ListInsert(c1, index1 + 1, p_end)
              ELSE c1
        p1 == [p EXCEPT !.content = PySlice(p.content, cut_lo, cut_hi)]
    IN  [ content |-> [c2 EXCEPT ![pos + 1] =
                         Paragraph_switch_formatting(p1, FormattingTypeValue(formatting_type))],
          next_paragraph_id |-> d.next_paragraph_id + 2 ]

\* The test of the for loop of Document.switch_formatting
SwitchTouches(p, start_index, end_index) ==
    \/ (p.start_index <= start_index /\ start_index <= p.end_index)
    \/ (p.end_index >= end_index /\ end_index >= p.start_index)

\* The for loop of Document.switch_formatting over copy_content (orig), at its
\* k-th element; added counts the paragraphs inserted so far, all of them
\* before orig[k].
RECURSIVE SwitchLoop(_, _, _, _, _, _, _)
SwitchLoop(d, orig, k, added, start_index, end_index, formatting_type) ==
    IF k > Len(orig) THEN d
    ELSE IF SwitchTouches(orig[k], start_index, end_index)
    THEN LET d1 == switch_style_within_paragraph(
                       d, k - 1 + added,
                       Max(start_index, orig[k].start_index),
                       Min(end_index, orig[k].end_index),
                       formatting_type)
         IN  SwitchLoop(d1, orig, k + 1, added + Len(d1.content) - Len(d.content),
                        start_index, end_index, formatting_type)
    ELSE SwitchLoop(d, orig, k + 1, added, start_index, end_index, formatting_type)

\* Document.switch_formatting
switch_formatting(d, start_index, end_index, formatting_type) ==
    LET d1 == SwitchLoop(d, d.content, 1, 0, start_index, end_index, formatting_type)
    IN  [d1 EXCEPT !.content = recalculate_start_and_end(join_paragraphs(d1.content))]

\* The paragraph lists that exist between two statements of
\* Document.switch_style_within_paragraph: after the insert of p_start, after
\* the insert of p_end, and after p.content is cut down, before p is toggled
switch_style_partway(d, pos, start_index, end_index, formatting_type) ==
    LET p == d.content[pos + 1]
        n == Len(p.content)
        cut_lo == Max(start_index - p.start_index, 0)
        cut_hi == n - Max(p.end_index - end_index, 0)
        p_start == Paragraph(d.next_paragraph_id, PyTo(p.content, cut_lo),
                             p.bold, p.italic, p.lowerscript, p.superscript, p.hierarchy)
        index1 == IF p_start.content # << >> THEN pos + 1 ELSE pos
        c1 == IF p_start.content # << >>
              THEN ListInsert(d.content, index1, p_start)
              ELSE d.content
        p_end == Paragraph(d.next_paragraph_id + 1, PyFrom(p.content, cut_hi),
                           p.bold, p.italic, p.lowerscript, p.superscript, p.hierarchy)
        c2 == IF p_end.content # << >>
              THEN ListInsert(c1, index1 + 1, p_end)
              ELSE c1
        c3 == [c2 EXCEPT ![pos + 1].content = PySlice(p.content, cut_lo, cut_hi)]
    IN  { c1, c2, c3 }

\* The paragraph lists that exist during the for loop of
\* Document.switch_formatting, from its k-th element on
RECURSIVE SwitchLoopPartway(_, _, _, _, _, _, _)
SwitchLoopPartway(d, orig, k, added, start_index, end_index, formatting_type) ==
    IF k > Len(orig) THEN { d.content }
    ELSE IF SwitchTouches(orig[k], start_index, end_index)
    THEN LET s1 == Max(start_index, orig[k].start_index)
             e1 == Min(end_index, orig[k].end_index)
             d1 == switch_style_within_paragraph(d, k - 1 + added, s1, e1, formatting_type)
         IN  switch_style_partway(d, k - 1 + added, s1, e1, formatting_type)
             \cup SwitchLoopPartway(d1, orig, k + 1,
                                    added + Len(d1.content) - Len(d.content),
                                    start_index, end_index, formatting_type)
    ELSE SwitchLoopPartway(d, orig, k + 1, added, start_index, end_index, formatting_type)

\* Every paragraph list another thread can find while Document.switch_formatting
\* runs: the list before the call, the lists between its statements (the
\* loop, join_paragraphs before its recalculation) and the list it leaves
switch_formatting_partway(d, start_index, end_index, formatting_type) ==
    LET d1 == SwitchLoop(d, d.content, 1, 0, start_index, end_index, formatting_type)
    IN  { d.content }
        \cup SwitchLoopPartway(d, d.content, 1, 0, start_index, end_index, formatting_type)
        \cup { JoinLoop(d1.content, Len(d1.content) - 1) }
        \cup { switch_formatting(d, start_index, end_index, formatting_type).content }

\* str.find(sub, start, end): the lowest index of sub within s[start:end], or -1
str_find(s, sub, start, end) ==
    LET lo == PyBound(start, Len(s))
        hi == PyBound(end, Len(s))
        hits == { i \in lo..(hi - Len(sub)) : SubSeq(s, i + 1, i + Len(sub)) = sub }
    IN  IF hits = {} THEN -1 ELSE CHOOSE i \in hits : \A j \in hits : i <= j

\* The while loop of Document.find_in_body
RECURSIVE FindLoop(_, _, _, _)
FindLoop(full_text, text, current_pos, end_index) ==
    IF current_pos < end_index
    THEN LET found_pos == str_find(full_text, text, current_pos, end_index)
         IN  IF found_pos = -1 THEN << >>
             ELSE << << found_pos, found_pos + Len(text) - 1 >> >>
                  \o FindLoop(full_text, text, found_pos + 1, end_index)
    ELSE << >>

\* Document.find_in_body, on the paragraph list: the (first, last) pairs found
find_in_body(c, text, start_index, end_index) ==
    IF text = << >> THEN << >>
    ELSE LET full_text == get_text_only(c)
         IN  FindLoop(full_text, text, start_index,
                      IF end_index = -1 THEN Len(full_text) ELSE end_index)

\* The while loop of stringObject.find (word.py)
RECURSIVE StringFindLoop(_, _, _)
StringFindLoop(s, text, start_index) ==
    LET pos == str_find(s, text, start_index, Len(s))
    IN  IF pos = -1 THEN << >>
        ELSE << pos >> \o StringFindLoop(s, text, pos + 1)

\* stringObject.find: the offsets found in content
stringObject_find(s, text) ==
    IF text = << >> THEN << >> ELSE StringFindLoop(s, text, 0)

\* A set_margin that stores the millimetres as they are given
set_margin_unscaled(value_mm) == value_mm

\* Document.set_margin: the new value of the margin named by margin_type
\* (value_mm / 10.0 centimetres, in hundredths of a centimetre)
set_margin(value_mm) == value_mm * 10

\* A serializer that writes every hierarchy as "body"
serialize_hierarchy_as_body(hierarchy) == FormattingTypeValue("BODY")

\* Paragraph.serialize_hierarchy
serialize_hierarchy(hierarchy) == FormattingTypeValue(hierarchy)

\* word.model_dump() as Document.save writes it
model_dump(p) == [p EXCEPT !.hierarchy = serialize_hierarchy(p.hierarchy)]

\* Paragraph(**item) as Document.load builds it: hierarchy is validated from
\* its value, start_index and end_index are taken as stored
Paragraph_of_item(item) == [item EXCEPT !.hierarchy = FormattingTypeOf(item.hierarchy)]

\* Document.save: the JSON array written to the file
save(c) == [k \in 1..Len(c) |-> model_dump(c[k])]

\* Document.load: the paragraph list built from the file's JSON array
load(items) == [k \in 1..Len(items) |-> Paragraph_of_item(items[k])]

\* ------------------------------------------------------------- state
VARIABLES
    content,            \* Document._content: the paragraph list
    next_paragraph_id,  \* Document.next_paragraph_id
    margin_left, margin_right, margin_top, margin_bottom,
    files,              \* the files of SAVES_DIR: filename -> file, or NoFile
    saved_doc,          \* history: filename -> the paragraph list when it was saved
    last_op,            \* history: the last operation and how it ended
    document_version,   \* word_processor_server.document_version
    pending,            \* handlers standing at "await increment_version()", by kind
    waiters,            \* the wait_for_change requests, one per client
    mutations,          \* history: the mutations whose handler has bumped the version
    applied,            \* history: the Document calls that handlers have come back from
    read                \* history: what the read handler that ended with the last step saw

margins == << margin_left, margin_right, margin_top, margin_bottom >>
server == << document_version, pending, waiters, mutations, applied, read >>
vars == << content, next_paragraph_id, margins, files, saved_doc, last_op, server >>

\* os.path.exists(file_path) and the JSON array of the file
NoFile == [ exists |-> FALSE, items |-> << >> ]
Filenames == { "f" }

\* The clients that poll wait_for_change
Clients == { "c1", "c2" }

\* A client's wait_for_change request: pc is "none" (no request yet),
\* "waiting" (suspended in version_condition.wait()), "notified" (woken by
\* notify_all, not yet resumed) or "returned".  client_version is the
\* argument, result the version returned; seen and seen_mutations are
\* history: document_version and mutations when the request was made.
NoRequest ==
    [ pc |-> "none", client_version |-> 0, seen |-> 0, seen_mutations |-> 0,
      result |-> 0 ]

\* A read handler's observation: the handler (op), the paragraph list it
\* went through (seen), and the paragraph list before and after the handler
\* that ran on the event loop meanwhile (both the current list when none ran)
NoRead == [ op |-> "none", seen |-> << >>, before |-> << >>, after |-> << >> ]

\* Document(): _content holds the seed paragraph built in the class body
NewDocument ==
    [ content |-> << Paragraph(0, << >>, FALSE, FALSE, FALSE, FALSE, "BODY") >>,
      next_paragraph_id |-> 1 ]

\* The module-level set-up of word_processor_server.py: doc = Document(),
\* doc.insert_at_index(sample, 0), doc.switch_formatting(10, 16, BOLD).  The
\* 72-character sample is scaled to three characters and the bold range to
\* its middle one, which keeps a non-empty text before and after the range.
ServerDocument ==
    LET d0 == NewDocument
        d1 == [d0 EXCEPT !.content = insert_at_index(d0.content, << "a", "b", "c" >>, 0)]
    IN  switch_formatting(d1, 1, 1, "BOLD")

Init ==
    /\ content = ServerDocument.content
    /\ next_paragraph_id = ServerDocument.next_paragraph_id
    /\ margin_left = 250 /\ margin_right = 250
    /\ margin_top = 250 /\ margin_bottom = 250
    /\ files = [f \in Filenames |-> NoFile]
    /\ saved_doc = [f \in Filenames |-> << >>]
    /\ last_op = "none"
    /\ document_version = 0
    /\ pending = [ mutation |-> 0, save |-> 0 ]
    /\ waiters = [ w \in Clients |-> NoRequest ]
    /\ mutations = 0
    /\ applied = 0
    /\ read = NoRead

\* doc.insert_at_index(text, index)
Insert(text, index) ==
    /\ content' = insert_at_index(content, text, index)
    /\ last_op' = "insert"
    /\ UNCHANGED << next_paragraph_id, margins, files, saved_doc >>

\* doc.delete(start_index, end_index)
Delete(start_index, end_index) ==
    /\ content' = delete(content, start_index, end_index)
    /\ last_op' = "delete"
    /\ UNCHANGED << next_paragraph_id, margins, files, saved_doc >>

\* doc.switch_formatting(start_index, end_index, formatting_type)
SwitchFormatting(start_index, end_index, formatting_type) ==
    LET d == switch_formatting([content |-> content, next_paragraph_id |-> next_paragraph_id],
                               start_index, end_index, formatting_type)
    IN  /\ content' = d.content
        /\ next_paragraph_id' = d.next_paragraph_id
        /\ last_op' = "switch"
        /\ UNCHANGED << margins, files, saved_doc >>

\* doc.set_margin(margin_type, value_mm)
SetMargin(margin_type, value_mm) ==
    /\ margin_left' = IF margin_type = "LEFT" THEN set_margin(value_mm) ELSE margin_left
    /\ margin_right' = IF margin_type = "RIGHT" THEN set_margin(value_mm) ELSE margin_right
    /\ margin_top' = IF margin_type = "TOP" THEN set_margin(value_mm) ELSE margin_top
    /\ margin_bottom' = IF margin_type = "BOTTOM" THEN set_margin(value_mm) ELSE margin_bottom
    /\ last_op' = "set_margin"
    /\ UNCHANGED << content, next_paragraph_id, files, saved_doc >>

\* doc.save(filename, SAVES_DIR)
Save(filename) ==
    /\ files' = [files EXCEPT ![filename] = [ exists |-> TRUE, items |-> save(content) ]]
    /\ saved_doc' = [saved_doc EXCEPT ![filename] = content]
    /\ last_op' = "save"
    /\ UNCHANGED << content, next_paragraph_id, margins >>

\* A load that leaves the seed document behind when the file is missing
LoadResettingWhenMissing(filename) ==
    /\ IF ~files[filename].exists
       THEN /\ last_op' = "load not found"
            /\ content' = NewDocument.content
       ELSE /\ content' = load(files[filename].items)
            /\ last_op' = "load"
    /\ UNCHANGED << next_paragraph_id, margins, files, saved_doc >>

\* doc.load(filename, SAVES_DIR): FileNotFoundError when the file is missing
Load(filename) ==
    /\ IF ~files[filename].exists
       THEN /\ last_op' = "load not found"
            /\ UNCHANGED content
       ELSE /\ content' = load(files[filename].items)
            /\ last_op' = "load"
    /\ UNCHANGED << next_paragraph_id, margins, files, saved_doc >>

\* ------------------------------------------------------------- specifications
\* The inputs the actions draw
\* The server process ends and a new one starts: the module-level set-up runs
\* again (a new Document with its own next_paragraph_id), and the files of
\* SAVES_DIR are those the earlier process left
Restart ==
    /\ content' = ServerDocument.content
    /\ next_paragraph_id' = ServerDocument.next_paragraph_id
    /\ margin_left' = 250 /\ margin_right' = 250
    /\ margin_top' = 250 /\ margin_bottom' = 250
    /\ last_op' = "restart"
    /\ UNCHANGED << files, saved_doc >>

Texts == { << "x" >> }
Indices == 0..MaxLen
MarginValues == { 10 }
EditKinds == { "BOLD" }
StoreKinds == { "BOLD", "TITLE" }
StoreMargins == { "LEFT" }
StoreStarts == { 0 }
StoreEnds == { 0, MaxLen - 1 }
\* The texts the properties about insert range over
InsertTexts == { << "x" >>, << "x", "y" >> }

\* What keeps the model finite: the text's length and next_paragraph_id
Within(max_id) ==
    /\ Len(get_text_only(content)) <= MaxLen
    /\ next_paragraph_id <= max_id

\* Spec: the editing operations of the Document
Next ==
    \/ \E text \in Texts, index \in Indices :
          Insert(text, index) /\ Within(MaxId)' /\ UNCHANGED server
    \/ \E s \in Indices, e \in Indices : Delete(s, e) /\ UNCHANGED server
    \/ \E s \in Indices, e \in Indices, k \in EditKinds :
          SwitchFormatting(s, e, k) /\ Within(MaxId)' /\ UNCHANGED server

Spec == Init /\ [][Next]_vars

\* SpecStore: every operation of the Document, save and load included
NextStore ==
    \/ \E text \in Texts, index \in StoreStarts :
          Insert(text, index) /\ Within(MaxId)' /\ UNCHANGED server
    \/ \E s \in StoreStarts, e \in StoreEnds : Delete(s, e) /\ UNCHANGED server
    \/ \E s \in StoreStarts, e \in StoreEnds, k \in StoreKinds :
          SwitchFormatting(s, e, k) /\ Within(MaxId)' /\ UNCHANGED server
    \/ \E m \in StoreMargins, v \in MarginValues : SetMargin(m, v) /\ UNCHANGED server
    \/ \E f \in Filenames : Save(f) /\ UNCHANGED server
    \/ \E f \in Filenames : Load(f) /\ UNCHANGED server

SpecStore == Init /\ [][NextStore]_vars

\* SpecJoin: join_paragraphs called on any paragraph list of up to MaxLen
\* paragraphs, coalesced or not, with the indices of newly built paragraphs
JoinContents == { << >>, << "x" >>, << "x", "y" >> }
JoinKinds == { "BODY", "TITLE" }

RunLists ==
    UNION { [ 1..n -> { Paragraph(0, c, b, FALSE, FALSE, FALSE, h) :
                          c \in JoinContents, b \in BOOLEAN, h \in JoinKinds } ] :
            n \in 0..MaxLen }

InitJoin ==
    /\ \E c \in RunLists :
          content = [ k \in 1..Len(c) |-> [c[k] EXCEPT !.paragraph_id = k - 1] ]
    /\ next_paragraph_id = Len(content)
    /\ margin_left = 250 /\ margin_right = 250
    /\ margin_top = 250 /\ margin_bottom = 250
    /\ files = [f \in Filenames |-> NoFile]
    /\ saved_doc = [f \in Filenames |-> << >>]
    /\ last_op = "none"
    /\ document_version = 0
    /\ pending = [ mutation |-> 0, save |-> 0 ]
    /\ waiters = [ w \in Clients |-> NoRequest ]
    /\ mutations = 0
    /\ applied = 0
    /\ read = NoRead

\* doc.join_paragraphs()
Join ==
    /\ content' = join_paragraphs(content)
    /\ last_op' = "join"
    /\ UNCHANGED << next_paragraph_id, margins, files, saved_doc >>

NextJoin == Join /\ UNCHANGED server

SpecJoin == InitJoin /\ [][NextJoin]_vars

\* SpecMargin: set_margin on every side, with values below, at and above
\* zero, between inserts and deletes at the head of the text
MarginInputs == { -10, 0, 30 }

NextMargin ==
    \/ \E m \in MarginType, v \in MarginInputs : SetMargin(m, v) /\ UNCHANGED server
    \/ \E text \in Texts, index \in StoreStarts :
          Insert(text, index) /\ Within(MaxId)' /\ UNCHANGED server
    \/ \E s \in StoreStarts, e \in StoreStarts : Delete(s, e) /\ UNCHANGED server

SpecMargin == Init /\ [][NextMargin]_vars

\* SpecRestart: formatting switches, save and load over several runs of the
\* server
NextRestart ==
    \/ \E s \in StoreStarts, e \in Indices, k \in EditKinds :
          SwitchFormatting(s, e, k) /\ Within(MaxId)' /\ UNCHANGED server
    \/ \E f \in Filenames : Save(f) /\ UNCHANGED server
    \/ \E f \in Filenames : Load(f) /\ UNCHANGED server
    \/ Restart /\ UNCHANGED server

SpecRestart == Init /\ [][NextRestart]_vars

\* ------------------------------------------------------------- word_processor_server.py
\* The handlers.  An "async def" handler runs on the event loop: its call of
\* the Document is one step, and "await increment_version()" is a point where
\* the handler may be suspended, so other handlers may run before the version
\* is bumped.  The schedule in which the increment follows at once (the one
\* an uncontended asyncio lock gives) is among those modelled.

\* A handler has called the Document and now stands at "await increment_version()"
AwaitIncrement(kind) ==
    /\ pending' = [pending EXCEPT
                     !.mutation = IF kind = "mutation" THEN @ + 1 ELSE @,
                     !.save = IF kind = "save" THEN @ + 1 ELSE @]
    /\ applied' = applied + 1
    /\ UNCHANGED << document_version, waiters, mutations >>

\* No read handler ends with this step
Quiet == read' = NoRead

\* version_condition.notify(): one suspended waiter is woken
notify_one(ws) ==
    LET suspended == { w \in DOMAIN ws : ws[w].pc = "waiting" }
    IN  IF suspended = {} THEN ws
        ELSE LET first == CHOOSE w \in suspended : TRUE
             IN  [ws EXCEPT ![first].pc = "notified"]

\* version_condition.notify_all(): every suspended waiter is woken
notify_all(ws) ==
    [ w \in DOMAIN ws |->
        IF ws[w].pc = "waiting" THEN [ws[w] EXCEPT !.pc = "notified"] ELSE ws[w] ]

\* A version increment that no handler's Document call has come before
increment_before_call(kind) ==
    /\ document_version < MaxVersion
    /\ document_version' = document_version + 1
    /\ waiters' = notify_all(waiters)
    /\ mutations' = IF kind = "mutation" THEN mutations + 1 ELSE mutations
    /\ UNCHANGED << pending, applied >>
    /\ Quiet
    /\ UNCHANGED << content, next_paragraph_id, margins, files, saved_doc, last_op >>

\* increment_version, reached by a handler of the given kind
increment_version(kind) ==
    /\ pending[kind] > 0
    /\ pending' = [pending EXCEPT ![kind] = @ - 1]
    /\ document_version' = document_version + 1
    /\ waiters' = notify_all(waiters)
    /\ mutations' = IF kind = "mutation" THEN mutations + 1 ELSE mutations
    /\ UNCHANGED applied
    /\ Quiet
    /\ UNCHANGED << content, next_paragraph_id, margins, files, saved_doc, last_op >>

\* POST /document/insert_string
insert_object(text, index) ==
    Insert(text, index) /\ AwaitIncrement("mutation") /\ Quiet

\* POST /document/delete_substring
delete_substring(start_index, end_index) ==
    Delete(start_index, end_index) /\ AwaitIncrement("mutation") /\ Quiet

\* POST /format/switch: Document.switch_formatting raises nothing, the
\* "except IndexError" branch is never taken
post_switch_formatting(start_index, end_index, formatting_type) ==
    /\ SwitchFormatting(start_index, end_index, formatting_type)
    /\ AwaitIncrement("mutation")
    /\ Quiet

\* POST /document/set_margin
post_set_margin(margin_type, value_mm) ==
    SetMargin(margin_type, value_mm) /\ AwaitIncrement("mutation") /\ Quiet

\* POST /document/save
save_document(filename) == Save(filename) /\ AwaitIncrement("save") /\ Quiet

\* POST /document/load: FileNotFoundError is answered with 404 and
\* increment_version is not reached
load_document(filename) ==
    /\ Load(filename)
    /\ IF files[filename].exists
       THEN AwaitIncrement("mutation")
       ELSE UNCHANGED << document_version, pending, waiters, mutations, applied >>
    /\ Quiet

\* The handlers declared with "def" run on a worker thread and take no lock.
\* GET /document, GET /document/html and POST /document/find_in_body go
\* through doc's paragraph list exactly as GET /document/text_only does, so
\* that one stands for the four.
ReadHandlers == { "get_text_only" }

\* A read handler that runs while no handler is inside the Document
read_document(op) ==
    /\ read' = [ op |-> op, seen |-> content, before |-> content, after |-> content ]
    /\ UNCHANGED << content, next_paragraph_id, margins, files, saved_doc, last_op,
                    document_version, pending, waiters, mutations, applied >>

\* A read handler on a worker thread while the event loop runs the
\* switch_formatting handler: the two threads share doc without a lock, and
\* the read goes through whichever paragraph list it finds
read_during_switch_formatting(op, start_index, end_index, formatting_type) ==
    /\ SwitchFormatting(start_index, end_index, formatting_type)
    /\ AwaitIncrement("mutation")
    /\ \E found \in switch_formatting_partway(
                       [content |-> content, next_paragraph_id |-> next_paragraph_id],
                       start_index, end_index, formatting_type) :
          read' = [ op |-> op, seen |-> found, before |-> content, after |-> content' ]

\* GET /document/wait-for-change/{client_version}, up to its return or its
\* suspension in version_condition.wait(); both happen with the lock held
wait_for_change(w, client_version) ==
    /\ waiters[w].pc \in { "none", "returned" }
    /\ waiters' = [waiters EXCEPT ![w] =
          [ pc |-> IF client_version < document_version THEN "returned" ELSE "waiting",
            client_version |-> client_version,
            seen |-> document_version,
            seen_mutations |-> mutations,
            result |-> IF client_version < document_version THEN document_version ELSE 0 ]]
    /\ Quiet
    /\ UNCHANGED << content, next_paragraph_id, margins, files, saved_doc, last_op,
                    document_version, pending, mutations, applied >>

\* wait_for_change resumed after the wait: it returns the version of that moment
wait_for_change_resume(w) ==
    /\ waiters[w].pc = "notified"
    /\ waiters' = [waiters EXCEPT ![w].pc = "returned", ![w].result = document_version]
    /\ Quiet
    /\ UNCHANGED << content, next_paragraph_id, margins, files, saved_doc, last_op,
                    document_version, pending, mutations, applied >>

\* The inputs the handlers draw in SpecServer
ServerStarts == { 0 }
ServerEnds == { 0, MaxLen }
DeleteStarts == { 0, 1 }
ClientVersions == { 0, 1 }
HandlerKinds == { "mutation", "save" }

\* A new handler may pass the Document: bounds on the handlers in flight and
\* on the version they will reach
Admits ==
    /\ pending.mutation + pending.save < MaxInFlight
    /\ document_version + pending.mutation + pending.save < MaxVersion

NextServer ==
    \/ \E text \in Texts, index \in ServerStarts :
          Admits /\ insert_object(text, index) /\ Within(MaxId)'
    \/ \E s \in DeleteStarts, e \in ServerEnds : Admits /\ delete_substring(s, e)
    \/ \E s \in ServerStarts, e \in ServerEnds, k \in EditKinds :
          Admits /\ post_switch_formatting(s, e, k) /\ Within(MaxId)'
    \/ \E m \in StoreMargins, v \in MarginValues : Admits /\ post_set_margin(m, v)
    \/ \E f \in Filenames : Admits /\ save_document(f)
    \/ \E f \in Filenames : (files[f].exists => Admits) /\ load_document(f)
    \/ \E k \in HandlerKinds : increment_version(k)
    \/ \E op \in ReadHandlers : read_document(op)
    \/ \E op \in ReadHandlers, s \in ServerStarts, e \in ServerEnds, k \in EditKinds :
          Admits /\ read_during_switch_formatting(op, s, e, k) /\ Within(MaxId)'
    \/ \E w \in Clients, v \in ClientVersions : wait_for_change(w, v)
    \/ \E w \in Clients : wait_for_change_resume(w)

SpecServer == Init /\ [][NextServer]_vars

\* The event loop runs every coroutine that is ready: a handler standing at
\* increment_version goes on, a woken wait_for_change resumes.  Nothing
\* obliges a client to send a request.
SpecServerFair ==
    /\ SpecServer
    /\ \A k \in HandlerKinds : WF_vars(increment_version(k))
    /\ \A w \in Clients : WF_vars(wait_for_change_resume(w))

\* ------------------------------------------------------------- properties
Text == get_text_only(content)
Doc == [ content |-> content, next_paragraph_id |-> next_paragraph_id ]

\* All the formatting fields of a paragraph
Formatting(p) ==
    [ bold |-> p.bold, italic |-> p.italic, lowerscript |-> p.lowerscript,
      superscript |-> p.superscript, hierarchy |-> p.hierarchy ]

\* The document character by character: each character with its formatting
RECURSIVE CharFormats(_)
CharFormats(c) ==
    IF c = << >> THEN << >>
    ELSE [ i \in 1..Len(Head(c).content) |->
             [ ch |-> Head(c).content[i], fmt |-> Formatting(Head(c)) ] ]
         \o CharFormats(Tail(c))

\* How many times each element occurs in a sequence
BagOf(seq) ==
    [ x \in { seq[i] : i \in 1..Len(seq) } |->
        Cardinality({ i \in 1..Len(seq) : seq[i] = x }) ]

\* The formatting a switch of kind gives, as the specification words it: a
\* boolean kind is flipped, a hierarchy kind replaces the hierarchy
Switched(fmt, kind) ==
    CASE kind = "BOLD" -> [fmt EXCEPT !.bold = ~fmt.bold]
      [] kind = "ITALIC" -> [fmt EXCEPT !.italic = ~fmt.italic]
      [] kind = "LOWERSCRIPT" -> [fmt EXCEPT !.lowerscript = ~fmt.lowerscript]
      [] kind = "SUPERSCRIPT" -> [fmt EXCEPT !.superscript = ~fmt.superscript]
      [] OTHER -> [fmt EXCEPT !.hierarchy = kind]

BooleanKinds == { "BOLD", "ITALIC", "LOWERSCRIPT", "SUPERSCRIPT" }

\* The run indices partition the text
Partition(c) ==
    /\ c # << >>
    /\ c[1].start_index = 0
    /\ \A i \in 1..(Len(c) - 1) : c[i].end_index + 1 = c[i + 1].start_index
    /\ c[Len(c)].end_index = Len(get_text_only(c)) - 1

C2_SwitchKeepsText ==
    \A s \in Indices, e \in Indices, k \in FormattingType :
        get_text_only(switch_formatting(Doc, s, e, k).content) = Text

\* C3: switchFormatting(start, end, kind) with 0 <= start <= end < totalLength
\* switches kind on every character of [start, end], in whatever run it lies
\* (the runs wholly between the two boundary runs included), and on no other
\* character.  Stated on the characters with their formatting, counted
\* without regard to their order.
C3_SwitchCoversRange ==
    \A s \in Indices, e \in Indices, k \in { "BOLD", "ITALIC", "TITLE" } :
        (s <= e /\ e < Len(Text)) =>
            LET before == CharFormats(content)
                wanted == [ i \in 1..Len(before) |->
                              IF s + 1 <= i /\ i <= e + 1
                              THEN [before[i] EXCEPT !.fmt = Switched(@, k)]
                              ELSE before[i] ]
                after == CharFormats(switch_formatting(Doc, s, e, k).content)
            IN  BagOf(after) = BagOf(wanted)

\* block occurs in seq as a run of consecutive elements
Occurs(block, seq) ==
    \/ block = << >>
    \/ \E j \in 0..(Len(seq) - Len(block)) :
           SubSeq(seq, j + 1, j + Len(block)) = block

\* The parts of run p that a switch of [s, e] must leave alone, each as its
\* characters with their formatting: the whole run when it does not overlap
\* the range, else its characters before s and its characters after e
FrameBlocks(p, s, e) ==
    LET chars == [ i \in 1..Len(p.content) |->
                     [ ch |-> p.content[i], fmt |-> Formatting(p) ] ]
        n == Len(chars)
    IN  IF s > e \/ p.end_index < s \/ p.start_index > e
        THEN { chars }
        ELSE { SubSeq(chars, 1, Min(n, Max(0, s - p.start_index))),
               SubSeq(chars, Max(1, Min(n + 1, e - p.start_index + 2)), n) }

\* C4: switchFormatting(start, end, kind) changes formatting only on the
\* clipped portion: the characters of a split run before start and those
\* after end, and the characters of every run that does not overlap
\* [start, end], are found afterwards as they were, side by side and with
\* all the formatting fields of their run.
C4_SwitchFrame ==
    \A s \in Indices, e \in Indices, k \in FormattingType :
        LET after == CharFormats(switch_formatting(Doc, s, e, k).content)
        IN  \A r \in 1..Len(content) :
                \A block \in FrameBlocks(content[r], s, e) : Occurs(block, after)

\* C5: for every range 0 <= s <= e < totalLength and every boolean kind,
\* switchFormatting(s, e, kind) applied twice in a row gives back the
\* original character and formatting at every position.
C5_ToggleInvolution ==
    \A s \in Indices, e \in Indices, k \in BooleanKinds :
        (s <= e /\ e < Len(Text)) =>
            LET once == switch_formatting(Doc, s, e, k)
                twice == switch_formatting(once, s, e, k)
            IN  CharFormats(twice.content) = CharFormats(content)

C7_InsertText ==
    \A text \in InsertTexts, index \in Indices :
        LET i == Min(index, Len(Text))
        IN  get_text_only(insert_at_index(content, text, index))
              = SubSeq(Text, 1, i) \o text \o SubSeq(Text, i + 1, Len(Text))

\* An insert has put its text between two characters of a document of
\* several runs
C7_Witness ==
    /\ last_op = "insert"
    /\ Len(content) >= 2
    /\ Len(Text) = 3
    /\ Text[2] = "x"

\* C8: deleteRange(s, e) with 0 <= s <= e < len(T) gives T[0..s) + T[e+1..),
\* and every character left keeps its formatting, whether s and e fall in one
\* run or in different runs.
C8_DeleteRange ==
    \A s \in Indices, e \in Indices :
        (s <= e /\ e < Len(Text)) =>
            LET before == CharFormats(content)
            IN  CharFormats(delete(content, s, e))
                  = SubSeq(before, 1, s) \o SubSeq(before, e + 2, Len(before))

\* A delete has run from the first run into the second one of the start document
C8_Witness ==
    /\ last_op = "delete"
    /\ content = delete(ServerDocument.content, 0, 1)

\* C9: for every non-empty text t and every 0 <= i <= totalLength,
\* insertText(t, i) followed by deleteRange(i, i + len(t) - 1) gives back the
\* original getPlainText().
C9_InsertDeleteInverse ==
    \A text \in InsertTexts, index \in Indices :
        index <= Len(Text) =>
            get_text_only(delete(insert_at_index(content, text, index),
                                 index, index + Len(text) - 1)) = Text

\* An insert has acted on a document of several runs, one of them empty
C9_Witness ==
    /\ last_op = "insert"
    /\ Len(content) >= 2
    /\ \E i \in 1..Len(content) : content[i].content = << >>

\* C10: load(name) after save(name) and any operations that do not write the
\* file gives the plain text and the formatting at every character that the
\* document had when it was saved.
C10_RoundTrip ==
    \A f \in Filenames :
        last_op = "load" => CharFormats(content) = CharFormats(saved_doc[f])

\* A load has put back a saved document of several runs with a title in it
C10_Witness ==
    /\ last_op = "load"
    /\ \E i \in 1..Len(content) :
          content[i].hierarchy = "TITLE" /\ content[i].content # << >>
    /\ Len(content) >= 2

\* The needles the properties about find range over
Needles == { << >>, << "x" >>, << "x", "x" >>, << "a", "x" >> }

\* C11: find is a non-overlapping left-to-right scan: for every text and
\* every non-empty needle each match starts after the end of the match before
\* it ("xx" in "xxx" is found once), in Document.find_in_body and in
\* stringObject.find; an empty needle yields no match.
C11_FindNonOverlapping ==
    \A needle \in Needles :
        LET found == find_in_body(content, needle, 0, -1)
            offsets == stringObject_find(Text, needle)
        IN  /\ needle = << >> => (found = << >> /\ offsets = << >>)
            /\ \A i \in 1..(Len(found) - 1) : found[i + 1][1] > found[i][2]
            /\ \A i \in 1..(Len(offsets) - 1) :
                   offsets[i + 1] >= offsets[i] + Len(needle)

\* C12: the version starts at 0, never decreases, and has grown by exactly n
\* after n successful mutations (insert, delete, switchFormatting, setMargin,
\* load), whatever the interleaving of the handlers: it equals the number of
\* mutations whose handler has completed its increment.
C12_VersionCountsMutations ==
    /\ document_version = 0
    /\ [][document_version' >= document_version]_vars
    /\ [](document_version = mutations)

\* Some waiter suspended in wait_for_change is woken by this step
ReleasesWaiter ==
    \E w \in Clients : waiters[w].pc = "waiting" /\ waiters'[w].pc = "notified"

\* C13: the version changes, and a waiter is released, only as the effect of
\* a successful insert, delete, switchFormatting, setMargin or load: a step of
\* any other handler (save, the reads, getVersion, waitForChange) leaves the
\* version as it is and wakes no waiter.
C13_OnlyMutationsBump ==
    [][(document_version' # document_version \/ ReleasesWaiter)
          => increment_version("mutation")]_vars

\* C14: a failed mutation changes nothing: load(name) of a file that does not
\* exist leaves the run list, the margins, next_paragraph_id and the version
\* as they were, schedules no increment and releases no waiter.
C14_FailedLoadChangesNothing ==
    [][\A f \in Filenames :
          (~files[f].exists /\ load_document(f))
             => UNCHANGED << content, margins, next_paragraph_id,
                             document_version, pending, waiters >>]_vars

\* A load has failed on an edited document while a client was suspended, and
\* the client still is
C14_Witness ==
    /\ last_op = "load not found"
    /\ document_version > 0
    /\ content # ServerDocument.content
    /\ \E w \in Clients :
          waiters[w].pc = "waiting" /\ waiters[w].seen = document_version

\* C15: waitForChange(sinceVersion) called with sinceVersion < currentVersion
\* returns at once with the current version; called with sinceVersion =
\* currentVersion it does not return before a successful mutation made after
\* the call has incremented the version, and it returns a newer version.
C15_WaitForChange ==
    \A w \in Clients :
        LET r == waiters[w]
        IN  /\ r.pc \in { "waiting", "notified" } => r.client_version >= r.seen
            /\ (r.pc = "returned" /\ r.client_version < r.seen) => r.result = r.seen
            /\ (r.pc = "returned" /\ r.client_version = r.seen) =>
                   /\ r.result > r.client_version
                   /\ mutations > r.seen_mutations

\* C16: every waiter suspended in waitForChange at the moment of a version
\* bump is released by that bump: no waiter is still suspended once the
\* version has moved past the one it saw, and every waiter that saw an older
\* version than the current one eventually returns, however many wait.
C16_AllWaitersReleased ==
    /\ [](\A w \in Clients :
             waiters[w].pc = "waiting" => document_version = waiters[w].seen)
    /\ \A w \in Clients :
          (waiters[w].pc \in { "waiting", "notified" }
             /\ document_version > waiters[w].seen)
          ~> (waiters[w].pc = "returned")

\* Both clients were suspended at the same version and one bump has made
\* both return
C16_Witness ==
    /\ \A w \in Clients :
          /\ waiters[w].pc = "returned"
          /\ waiters[w].client_version = waiters[w].seen
          /\ waiters[w].result = waiters[w].seen + 1
    /\ \A v, w \in Clients : waiters[v].seen = waiters[w].seen
    /\ \A w \in Clients : document_version = waiters[w].seen + 1

\* C17: a read-only handler (get document, getText, find) never sees the
\* document partway through a mutation: the paragraph list it goes through
\* is the list before or the list after the whole operation that ran
\* meanwhile.
C17_ReadsSeeWholeOperations ==
    read.op \in ReadHandlers => read.seen \in { read.before, read.after }

\* C18: subscript and superscript are mutually exclusive: after switching
\* LOWERSCRIPT or SUPERSCRIPT over a range of the text, once or twice in any
\* order, no run has both lowerscript and superscript true.
ScriptKinds == { "LOWERSCRIPT", "SUPERSCRIPT" }

ScriptsExclusive(c) ==
    \A i \in 1..Len(c) : ~(c[i].lowerscript /\ c[i].superscript)

C18_ScriptsExclusive ==
    \A s \in Indices, e \in Indices, k1 \in ScriptKinds, k2 \in ScriptKinds :
        s <= e /\ e < Len(Text) =>
            LET d1 == switch_formatting(Doc, s, e, k1)
                d2 == switch_formatting(d1, s, e, k2)
            IN  ScriptsExclusive(d1.content) /\ ScriptsExclusive(d2.content)

\* C19: no empty run exists at rest: after a completed insert, delete or
\* switch_formatting no run has empty content, unless the whole document is
\* empty and the run list is the one seed run.
C19_NoEmptyRunAtRest ==
    last_op \in { "insert", "delete", "switch" } =>
        \/ \A i \in 1..Len(content) : content[i].content # << >>
        \/ Text = << >> /\ Len(content) = 1

\* C20: a switch_formatting request whose start or end lies outside
\* [0, total length) fails with an index error: the run list is unchanged
\* and no version increment follows from it.
OutOfRange(index) == index < 0 \/ index >= Len(Text)

C20_SwitchOutOfRangeFails ==
    [][\A s \in ServerStarts, e \in ServerEnds, k \in EditKinds :
          (OutOfRange(s) \/ OutOfRange(e)) /\ post_switch_formatting(s, e, k)
              => UNCHANGED << content, document_version, pending >>]_vars

\* C21: a delete request with start > end is a no-op: the run list, the
\* margins and the version counter are unchanged, no version increment
\* follows from it and no waiter is released.
C21_ReversedDeleteIsNoOp ==
    [][\A s \in DeleteStarts, e \in ServerEnds :
          s > e /\ delete_substring(s, e)
              => UNCHANGED << content, next_paragraph_id, margins,
                              document_version, pending, waiters >>]_vars

\* json.load(f) of a file whose items carry start_index and end_index moved
\* by shift from those Document.save wrote: the file is read as it is
Snapshot(items, shift) ==
    [ k \in 1..Len(items) |->
        [items[k] EXCEPT !.start_index = @ + shift, !.end_index = @ + shift] ]

StoredShifts == { 0, 1 }

\* Every run's indices are the ones its place in the text gives
Derived(c) ==
    \A i \in 1..Len(c) :
        LET start == Len(get_text_only(SubSeq(c, 1, i - 1)))
        IN  /\ c[i].start_index = start
            /\ c[i].end_index = start + Len(c[i].content) - 1

\* C22: after the load of any snapshot every run's start_index and end_index
\* are the values derived from the loaded contents (start = the lengths of
\* the runs before it, end = start + len(content) - 1), whatever indices the
\* snapshot stored.
C22_LoadRecalculates ==
    \A shift \in StoredShifts : Derived(load(Snapshot(save(content), shift)))

\* The runs of the Buffer have pairwise distinct ids
IdsDistinct(c) ==
    \A i \in 1..Len(c), j \in 1..Len(c) :
        i # j => c[i].paragraph_id # c[j].paragraph_id

\* C23: run ids are never reused: after any sequence of operations, a load
\* of a snapshot saved by this or by an earlier Buffer instance included, the
\* runs have pairwise distinct ids, next_paragraph_id is greater than the id
\* of every run, and next_paragraph_id never decreases within an instance.
C23_IdsNeverReused ==
    /\ [](IdsDistinct(content)
           /\ \A i \in 1..Len(content) : content[i].paragraph_id < next_paragraph_id)
    /\ [][Restart \/ next_paragraph_id' >= next_paragraph_id]_vars

HierarchyKinds == { "BODY", "TITLE", "HEADING", "SUBHEADING" }

\* C24: a hierarchy kind is set, not toggled: switch_formatting(s, e, h) with
\* h a hierarchy kind gives the characters of [s, e] the hierarchy h whatever
\* it was, leaves their boolean flags and every other character as they
\* were, and applying the same call a second time changes nothing more.
C24_HierarchyIsSet ==
    \A s \in Indices, e \in Indices, h \in HierarchyKinds :
        (s <= e /\ e < Len(Text)) =>
            LET before == CharFormats(content)
                wanted == [ i \in 1..Len(before) |->
                              IF s + 1 <= i /\ i <= e + 1
                              THEN [before[i] EXCEPT !.fmt.hierarchy = h]
                              ELSE before[i] ]
                once == switch_formatting(Doc, s, e, h)
                twice == switch_formatting(once, s, e, h)
            IN  /\ BagOf(CharFormats(once.content)) = BagOf(wanted)
                /\ BagOf(CharFormats(twice.content)) = BagOf(CharFormats(once.content))

\* A paragraph with no formatting: every flag false, hierarchy BODY
Unformatted(p) ==
    Formatting(p) = [ bold |-> FALSE, italic |-> FALSE, lowerscript |-> FALSE,
                      superscript |-> FALSE, hierarchy |-> "BODY" ]

\* C25: prefix split: on a document of one unformatted run of length n,
\* switch_formatting(0, e, BOLD) with 0 <= e < n - 1 yields exactly two
\* runs in this order: the first e + 1 characters, bold, with indices
\* [0, e], and the remaining characters, not bold, with indices [e + 1, n - 1].
C25_PrefixSplit ==
    (Len(content) = 1 /\ Unformatted(content[1])) =>
        \A e \in Indices :
            e < Len(Text) - 1 =>
                LET n == Len(Text)
                    r == switch_formatting(Doc, 0, e, "BOLD").content
                IN  /\ Len(r) = 2
                    /\ r[1].content = SubSeq(Text, 1, e + 1)
                    /\ Formatting(r[1]) = [Formatting(content[1]) EXCEPT !.bold = TRUE]
                    /\ r[1].start_index = 0 /\ r[1].end_index = e
                    /\ r[2].content = SubSeq(Text, e + 2, n)
                    /\ Unformatted(r[2])
                    /\ r[2].start_index = e + 1 /\ r[2].end_index = n - 1

\* A switch over the first two characters of a single unformatted run of
\* three has left a bold run of two and a plain run of one
C25_Witness ==
    /\ last_op = "switch"
    /\ Len(content) = 2
    /\ Len(content[1].content) = 2 /\ content[1].bold
    /\ Len(content[2].content) = 1 /\ Unformatted(content[2])
    /\ content = switch_formatting(
                     [ content |-> << [content[1] EXCEPT
                                         !.content = Text, !.bold = FALSE,
                                         !.end_index = 2] >>,
                       next_paragraph_id |-> next_paragraph_id - 2 ],
                     0, 1, "BOLD").content

\* The margin of a side, in hundredths of a centimetre
MarginOf(side) ==
    CASE side = "LEFT" -> margin_left
      [] side = "RIGHT" -> margin_right
      [] side = "TOP" -> margin_top
      [] side = "BOTTOM" -> margin_bottom

\* C26: set_margin(side, value_mm) stores value_mm / 10 centimetres in the
\* named side and changes nothing else: the three other margins, the run
\* list and next_paragraph_id are unchanged, for every side and every value;
\* there is no bounds check and the call never fails.
C26_SetMarginFrame ==
    /\ [](\A m \in MarginType, v \in MarginInputs : ENABLED SetMargin(m, v))
    /\ [][\A m \in MarginType, v \in MarginInputs :
            SetMargin(m, v) =>
                /\ MarginOf(m)' = 10 * v
                /\ \A other \in MarginType \ { m } : MarginOf(other)' = MarginOf(other)
                /\ UNCHANGED << content, next_paragraph_id >>]_vars

\* The top margin was set below zero after the left one was set to 3 cm; the
\* two other sides still have the 2.5 cm of a new Document
C26_Witness ==
    /\ last_op = "set_margin"
    /\ margin_top = -100
    /\ margin_left = 300
    /\ margin_right = 250 /\ margin_bottom = 250

\* C27: coalescing is idempotent: for every run list, join_paragraphs run a
\* second time leaves the run list (runs, contents, formatting, indices) as
\* the first run left it, and join_paragraphs never changes the plain text.
C27_JoinIdempotent ==
    [][Join => /\ join_paragraphs(content') = content'
               /\ get_text_only(content') = get_text_only(content)]_vars

\* Three one-character runs of equal formatting were joined into one run
C27_Witness ==
    /\ last_op = "join"
    /\ Len(content) = 1
    /\ content[1].content = << "x", "x", "x" >>
    /\ content[1].start_index = 0 /\ content[1].end_index = 2

\* C28: for every client_version, one greater than the server's version
\* included, the version wait_for_change returns is strictly greater than
\* client_version.
C28_ReturnsNewerVersion ==
    \A w \in Clients :
        waiters[w].pc = "returned" => waiters[w].result > waiters[w].client_version

\* C29: the version is never ahead of the document: every version increment
\* comes after the Document call of the handler that makes it, so the
\* version never counts more than the calls already applied to the document,
\* an increment step itself leaves the document as it is, and the version a
\* released waiter returns counts only calls the document already holds.
C29_VersionNotAhead ==
    /\ [](document_version <= applied)
    /\ [](\A w \in Clients :
            waiters[w].pc = "returned" => waiters[w].result <= applied)
    /\ [][document_version' # document_version
            => UNCHANGED << content, next_paragraph_id, margins >>]_vars

\* A client that waited at version 0 was released by the increment of an
\* insert and has returned version 1
C29_Witness ==
    /\ waiters["c1"].pc = "returned"
    /\ waiters["c1"].client_version = 0 /\ waiters["c1"].seen = 0
    /\ waiters["c1"].result = 1
    /\ last_op = "insert"
    /\ mutations = 1

\* C30: an insert at a run boundary goes to the earlier run: when
\* run[k].end_index + 1 = i = run[k + 1].start_index, insert_at_index(text, i)
\* adds the text to the end of run[k]; the text gets run[k]'s formatting,
\* run[k + 1] keeps its content and formatting, and the number of runs does
\* not change.
C30_BoundaryInsertGoesToEarlierRun ==
    \A text \in InsertTexts, i \in Indices, k \in 1..(Len(content) - 1) :
        (content[k].end_index + 1 = i /\ i = content[k + 1].start_index) =>
            insert_at_index(content, text, i)
              = recalculate_start_and_end(
                    [content EXCEPT ![k].content = content[k].content \o text])

====
